---- MODULE Spec2Model ----
(***************************************************************************)
(* A model of pypadre's event bus (padre/eventhandler.py), of its          *)
(* hyperparameter grid expander (pypadre/core/model/pipeline/parameters.py)*)
(* of the local file backends of splits and executions, and of the         *)
(* experiment registry of padre/ExperimentCreator.py.                      *)
(***************************************************************************)
EXTENDS Naturals, Sequences, FiniteSets, TLC

VARIABLES
    _event_queue,     \* event_queue._event_queue: the pending events, oldest first
    _emptying_queue,  \* event_queue._emptying_queue: the drain flag
    stack,            \* the active process_events calls, innermost last
    appended,         \* history: every event appended to the queue, in append order
    taken,            \* history: ids of the events popped by process_events, in order
    invoked,          \* history: [ev, h, handler] for every handler invocation
    calls,            \* history: every logger method call made by a handler
    error,            \* the exception that reached the outside caller, or "none"
    emit,             \* the event templates the callers and loggers publish
    budget,           \* how many more events the environment will publish
    hyperparameters,  \* the mapping of parameter names to values handed to the grid expander
    component,        \* the id of the pipeline component GridSearch.call is called for
    registered,       \* whether the mapping is registered in the ParameterMap under that id
    form,             \* how it is registered: as the dict, or as a callable that returns a value
    combinations,     \* what create_combinations returned or raised, or Pending
    search,           \* what GridSearch.call returned or raised, or Pending
    split_dirs,       \* <root>/splits: the directory of each folder name, or Absent
    execution_dirs,   \* <root>/executions: the directory of each folder name, or Absent
    last,             \* the last call on a file backend: its arguments and its outcome
    written,          \* history: the <<entity, folder>> a put has stored in this behaviour
    overwritten,      \* history: those a put has stored over an existing directory
    _experiments,     \* ExperimentCreator._experiments: the registry, name -> entry
    _param_value_dict,\* ExperimentCreator._param_value_dict: name -> parameters
    last_create,      \* the last create_experiment call: its kind and its outcome
    first_created,    \* history: the entry each name was first registered with
    config_offline,   \* PadreApp._config.general["offline"]
    _offline,         \* PadreApp._offline: <<>> while unset, else <<the value assigned>>
    local_datasets,   \* the dataset the local backend holds under the id, or None
    remote_datasets,  \* the dataset the remote backend holds under the id, or None
    last_app,         \* the last call on the app: its arguments and its outcome
    _repo,            \* IBaseGitBackend._repo: the repository object, or None
    repo,             \* the attribute repo of the git backend, or None while unset
    git_files,        \* the objects whose files are on the disk of the git backend
    last_git,         \* the last call on the git backend: what it did, in order
    stored,           \* the executions send_put has persisted
    runs,             \* the Run objects created, in order: the execution of each
    last_exec         \* the last execute of an Execution: its steps and its outcome

busvars == <<_event_queue, _emptying_queue, stack, appended, taken, invoked, calls,
             error, emit, budget>>

gridvars == <<hyperparameters, component, registered, form, combinations, search>>

storevars == <<split_dirs, execution_dirs, last, written, overwritten>>

creatorvars == <<_experiments, _param_value_dict, last_create, first_created>>

appvars == <<config_offline, _offline, local_datasets, remote_datasets, last_app>>

gitvars == <<_repo, repo, git_files, last_git>>

execvars == <<stored, runs, last_exec>>

restvars == <<appvars, gitvars, execvars>>

vars == <<busvars, gridvars, storevars, creatorvars, restvars>>

----------------------------------------------------------------------------
(* Bounds of the model. *)

\* Events published in one behaviour of the ordering specification.
MaxEvents == 4

\* Events published in one behaviour of the lifecycle specification.
MaxLifecycleEvents == 2

\* Run objects created in one behaviour.
MaxRuns == 4

\* Parameters of one hyperparameter mapping.
MaxParams == 2

\* Values in one parameter's value list.
MaxValues == 2

----------------------------------------------------------------------------
(* Python values. *)

None == "None"

\* dict.get(key, None) on a mapping modelled as a function.
dict_get(d, key) == IF key \in DOMAIN d THEN d[key] ELSE None

\* The empty mapping {}.
EmptyDict == [k \in {} |-> None]

----------------------------------------------------------------------------
(* The module-level handlers, lines 8-82.  A handler that fans out to the  *)
(* loggers reads one key of args and calls one method of every logger.     *)

\* The key of args a handler reads (args.get(key, None)); None for the
\* handlers whose body is pass or print.
HandlerKey(handler) ==
    CASE handler = "log_start_experiment" -> "experiment"
      [] handler = "log_stop_experiment" -> "experiment"
      [] handler = "put_experiment_configuration" -> "experiment"
      [] handler = "log_start_run" -> "run"
      [] handler = "log_stop_run" -> "run"
      [] handler = "log_start_split" -> "split"
      [] handler = "log_stop_split" -> "split"
      [] OTHER -> None

\* The logger method a handler calls on each logger of logger_list.
HandlerMethod(handler) ==
    CASE handler = "log_start_experiment" -> "log_start_experiment"
      [] handler = "log_stop_experiment" -> "log_stop_experiment"
      [] handler = "put_experiment_configuration" -> "put_experiment_configuration"
      [] handler = "log_start_run" -> "log_start_run"
      [] handler = "log_stop_run" -> "log_stop_run"
      [] handler = "log_start_split" -> "log_start_split"
      [] handler = "log_stop_split" -> "log_start_split"
      [] OTHER -> None

\* EVENT_HANDLER_DICT as the module defines it.
EVENT_HANDLER_DICT ==
    [n \in {"EVENT_START_EXPERIMENT", "EVENT_STOP_EXPERIMENT", "EVENT_START_RUN",
            "EVENT_STOP_RUN", "EVENT_START_SPLIT", "EVENT_STOP_SPLIT",
            "EVENT_PUT_EXPERIMENT_CONFIGURATION", "EVENT_LOG_SCORE",
            "EVENT_LOG_RESULTS", "EVENT_LOG_EVENT", "EVENT_LOG", "EVENT_WARN",
            "EVENT_ERROR"} |->
        CASE n = "EVENT_START_EXPERIMENT" -> <<"log_start_experiment">>
          [] n = "EVENT_STOP_EXPERIMENT" -> <<"log_stop_experiment">>
          [] n = "EVENT_START_RUN" -> <<"log_start_run">>
          [] n = "EVENT_STOP_RUN" -> <<"log_stop_run">>
          [] n = "EVENT_START_SPLIT" -> <<"log_start_split">>
          [] n = "EVENT_STOP_SPLIT" -> <<"log_stop_split">>
          [] n = "EVENT_PUT_EXPERIMENT_CONFIGURATION" -> <<"put_experiment_configuration">>
          [] n = "EVENT_LOG_SCORE" -> <<"log_score">>
          [] n = "EVENT_LOG_RESULTS" -> <<"log_results">>
          [] n = "EVENT_LOG_EVENT" -> <<"log_event">>
          [] n = "EVENT_LOG" -> <<"log">>
          [] n = "EVENT_WARN" -> <<"warn">>
          [] n = "EVENT_ERROR" -> <<"error">>]

\* Entries a client of the module puts into the module-level dictionary:
\* process_events provides for lists of any length (lines 145-149).
ClientHandlers ==
    [n \in {"EVENT_CLIENT_NONE", "EVENT_CLIENT_TWO"} |->
        IF n = "EVENT_CLIENT_NONE" THEN <<>>
        ELSE <<"log_score", "log_start_run">>]

\* The dictionary process_events looks the handlers up in.
HandlerDict == EVENT_HANDLER_DICT @@ ClientHandlers

\* logger_list, line 171, after the application registered two loggers.
logger_list == <<"logger1", "logger2">>

----------------------------------------------------------------------------
(* The events of the environment. *)

\* An event template: the EVENT_NAME and the args mapping.
Template(name, args) == [name |-> name, args |-> args]

\* The args mapping holding the entity under key.
ArgsWith(key) == [k \in {key} |-> "entity"]

\* The templates of the ordering specification: a lifecycle event whose
\* handler calls the loggers, an event whose handler does nothing, a name
\* with no entry in the dictionary, and the two client entries.
OrderingEvents ==
    { Template("EVENT_START_RUN", ArgsWith("run")),
      Template("EVENT_LOG_SCORE", EmptyDict),
      Template("EVENT_UNKNOWN", EmptyDict),
      Template("EVENT_CLIENT_NONE", EmptyDict),
      Template("EVENT_CLIENT_TWO", ArgsWith("run")) }

LifecycleNames ==
    {"EVENT_START_EXPERIMENT", "EVENT_STOP_EXPERIMENT", "EVENT_START_RUN",
     "EVENT_STOP_RUN", "EVENT_START_SPLIT", "EVENT_STOP_SPLIT"}

\* The templates of the lifecycle specification: every lifecycle event, with
\* the entity its handler reads or without it.
LifecycleEvents ==
    { Template(n, ArgsWith(HandlerKey(EVENT_HANDLER_DICT[n][1]))) : n \in LifecycleNames }
    \cup { Template(n, EmptyDict) : n \in LifecycleNames }

\* The event a publisher makes of a template: id is its position in the
\* append history, by is the id of the event whose handler published it
\* (0 for an outside caller).
Event(t, by) ==
    [id |-> Len(appended) + 1, name |-> t.name, args |-> t.args, by |-> by]

----------------------------------------------------------------------------
(* class event_queue, lines 115-162. *)

\* A process_events call at the head of its while loop.
LoopFrame == [pc |-> "loop", ev |-> 0, hs |-> <<>>, h |-> 0, l |-> 0]

\* A process_events call about to invoke handler hs[h] of event ev (l = 0),
\* or inside it, about to call logger l.
HandlerFrame(ev, hs, h, l) == [pc |-> "handler", ev |-> ev, hs |-> hs, h |-> h, l |-> l]

Top == stack[Len(stack)]
Pop(stk) == SubSeq(stk, 1, Len(stk) - 1)
ReplaceTop(stk, f) == Append(Pop(stk), f)

\* Line 126: while self._event_queue.
queue_pending_short(q) == Len(q) > 1
queue_pending(q) == q # <<>>

\* Line 133: self._event_queue.pop(0), as <<the event, the rest>>.
pop_last(q) == <<q[Len(q)], SubSeq(q, 1, Len(q) - 1)>>
pop0(q) == <<Head(q), Tail(q)>>

\* Line 160: if not self._emptying_queue.
setter_always_drains == TRUE
setter_starts_drain == ~_emptying_queue

\* Lines 157-162, the event_queue setter, called with the stack stk of the
\* publisher: append, and call process_events unless a drain is active.
event_queue_setter(ev, stk) ==
    /\ _event_queue' = Append(_event_queue, ev)
    /\ appended' = Append(appended, ev)
    /\ budget' = budget - 1
    /\ stack' = IF setter_starts_drain THEN Append(stk, LoopFrame) ELSE stk

\* Lines 174-181: an outside caller publishes an event (eventemitter 'EVENT'
\* calls add_event_to_queue).  The caller is outside every process_events.
add_event_to_queue ==
    /\ stack = <<>>
    /\ budget > 0
    /\ \E t \in emit : event_queue_setter(Event(t, 0), stack)
    /\ UNCHANGED <<_emptying_queue, taken, invoked, calls, error, emit,
                   gridvars, storevars, creatorvars, restvars>>

\* The frame after handler hs[h] returned: the next handler of the list
\* (lines 146-147), or the head of the while loop.
AfterHandler(f) ==
    IF f.h < Len(f.hs) THEN HandlerFrame(f.ev, f.hs, f.h + 1, 0) ELSE LoopFrame

\* Lines 126-151: one pass through the head of the while loop.
process_events ==
    /\ stack # <<>>
    /\ Top.pc = "loop"
    /\ IF ~queue_pending(_event_queue)
       THEN \* line 151
            /\ _emptying_queue' = FALSE
            /\ stack' = Pop(stack)
            /\ UNCHANGED <<_event_queue, taken, error>>
       ELSE LET event == pop0(_event_queue)[1]
                event_handlers == dict_get(HandlerDict, event.name)
            IN  /\ _emptying_queue' = TRUE
                /\ _event_queue' = pop0(_event_queue)[2]
                /\ taken' = Append(taken, event.id)
                /\ IF event_handlers = None
                   THEN \* lines 136-141: return
                        /\ stack' = Pop(stack)
                        /\ UNCHANGED error
                   ELSE IF Len(event_handlers) > 1
                   THEN /\ stack' = ReplaceTop(stack, HandlerFrame(event.id, event_handlers, 1, 0))
                        /\ UNCHANGED error
                   ELSE IF Len(event_handlers) = 0
                   THEN \* line 149: event_handlers[0] raises IndexError, which
                        \* no frame catches
                        /\ stack' = <<>>
                        /\ error' = "IndexError"
                   ELSE /\ stack' = ReplaceTop(stack, HandlerFrame(event.id, event_handlers, 1, 0))
                        /\ UNCHANGED error
    /\ UNCHANGED <<appended, invoked, calls, emit, budget, gridvars, storevars, creatorvars, restvars>>

\* Lines 147/149 and the head of a handler (lines 8-82): the handler is
\* invoked with args, reads its entity and returns at once when it has no
\* logger to call.
invoke_handler ==
    /\ stack # <<>>
    /\ Top.pc = "handler"
    /\ Top.l = 0
    /\ LET f == Top
           handler == f.hs[f.h]
           key == HandlerKey(handler)
           entity == IF key = None THEN None ELSE dict_get(appended[f.ev].args, key)
       IN  /\ invoked' = Append(invoked, [ev |-> f.ev, h |-> f.h, handler |-> handler])
           /\ stack' = ReplaceTop(stack,
                         IF entity = None \/ logger_list = <<>>
                         THEN AfterHandler(f)
                         ELSE HandlerFrame(f.ev, f.hs, f.h, 1))
    /\ UNCHANGED <<_event_queue, _emptying_queue, appended, taken, calls, error,
                   emit, budget, gridvars, storevars, creatorvars, restvars>>

\* One turn of "for logger in logger_list: logger.<method>(...)": the logger
\* is called and may publish one event while it runs.
logger_call ==
    /\ stack # <<>>
    /\ Top.pc = "handler"
    /\ Top.l > 0
    /\ LET f == Top
           handler == f.hs[f.h]
           next == IF f.l < Len(logger_list)
                   THEN HandlerFrame(f.ev, f.hs, f.h, f.l + 1)
                   ELSE AfterHandler(f)
       IN  /\ calls' = Append(calls, [logger |-> logger_list[f.l],
                                      method |-> HandlerMethod(handler),
                                      ev |-> f.ev])
           /\ \/ /\ stack' = ReplaceTop(stack, next)
                 /\ UNCHANGED <<_event_queue, appended, budget>>
              \/ /\ budget > 0
                 /\ \E t \in emit :
                        event_queue_setter(Event(t, f.ev), ReplaceTop(stack, next))
    /\ UNCHANGED <<_emptying_queue, taken, invoked, error, emit, gridvars, storevars, creatorvars, restvars>>

----------------------------------------------------------------------------
(* What the histories say. *)

Ids == 1..Len(appended)

RECURSIVE SeqMap(_, _)
\* The sequence of the values of one field of the records of s.
SeqMap(s, field) ==
    IF s = <<>> THEN <<>> ELSE <<Head(s)[field]>> \o SeqMap(Tail(s), field)

IsFirstHandler(r) == r.h = 1

\* The ids of the events dispatched to their handlers, in dispatch order: an
\* event is dispatched when the first handler of its list is invoked.
Dispatched == SeqMap(SelectSeq(invoked, IsFirstHandler), "ev")

IsPrefix(s, t) == Len(s) <= Len(t) /\ s = SubSeq(t, 1, Len(s))

\* The dispatch order of the events of the set S.
DispatchedAmong(S) == LET In(x) == x \in S IN SelectSeq(Dispatched, In)

Idle == stack = <<>>

HasHandlers(name) == dict_get(HandlerDict, name) # None

\* No process_events call is working on event i.
DispatchDone(i) ==
    /\ \E k \in 1..Len(taken) : taken[k] = i
    /\ \A k \in 1..Len(stack) : stack[k].ev # i

\* The handlers invoked for event i, in invocation order.
HandlersOf(i) == LET Of(r) == r.ev = i IN SeqMap(SelectSeq(invoked, Of), "handler")

\* The logger calls made for event i, in call order.
CallsOf(i) == LET Of(c) == c.ev = i IN SelectSeq(calls, Of)

\* Outside callers published a, b and c in that order and the handler of a
\* published d.
ABCD(a, b, c, d) ==
    /\ a < b /\ b < c
    /\ appended[a].by = 0 /\ appended[b].by = 0 /\ appended[c].by = 0
    /\ appended[d].by = a

----------------------------------------------------------------------------
(* The claims about the event bus. *)

\* C1, as the specification states it: when a caller enqueues A, B, C in
\* that order and the handler of A enqueues D, the four events are
\* dispatched in the order A, B, C, D.
C1_DispatchOrderABCD ==
    \A a \in Ids, b \in Ids, c \in Ids, d \in Ids :
        (ABCD(a, b, c, d) /\ Len(DispatchedAmong({a, b, c, d})) = 4)
            => DispatchedAmong({a, b, c, d}) = <<a, b, c, d>>

\* C1, amended: when a caller enqueues A, B, C in that order and the handler
\* of A enqueues D, the events are dispatched in the order A, D, B, C: at any
\* moment the dispatches among the four are a prefix of A, D, B, C, because
\* the drain that enqueuing A starts dispatches D before the caller can
\* enqueue B.
C1_DispatchOrderADBC ==
    \A a \in Ids, b \in Ids, c \in Ids, d \in Ids :
        ABCD(a, b, c, d) => IsPrefix(DispatchedAmong({a, b, c, d}), <<a, d, b, c>>)

\* C1 witness: all four events of such a scenario have been dispatched.
C1_Witness ==
    \E a \in Ids, b \in Ids, c \in Ids, d \in Ids :
        ABCD(a, b, c, d) /\ DispatchedAmong({a, b, c, d}) = <<a, d, b, c>>

\* C2: events are popped in exactly the order they were appended, none
\* skipped and none twice, and the order of dispatch to the handlers is the
\* append order: no event is dispatched before an event appended earlier,
\* and none is dispatched twice.
C2_DispatchInAppendOrder ==
    /\ taken = [k \in 1..Len(taken) |-> k]
    /\ SeqMap(_event_queue, "id") = [k \in 1..Len(_event_queue) |-> Len(taken) + k]
    /\ Len(taken) + Len(_event_queue) = Len(appended)
    /\ \A i \in 1..Len(Dispatched), j \in 1..Len(Dispatched) :
           i < j => Dispatched[i] < Dispatched[j]

\* C2 witness: three events were dispatched, one of them published by a
\* handler during the drain and one published later by an outside caller.
C2_Witness ==
    /\ Len(Dispatched) >= 3
    /\ \E i \in 1..Len(Dispatched), j \in 1..Len(Dispatched) :
           /\ i < j
           /\ appended[Dispatched[i]].by # 0
           /\ appended[Dispatched[j]].by = 0

\* C3: after an event whose name has no entry in the handler dictionary was
\* taken from the queue, the bus stays usable: once the publishing calls
\* have returned, every event appended to the queue has been taken by
\* process_events and every one with handlers has been dispatched.
C3_UnhandledKeepsBusUsable ==
    (/\ Idle
     /\ error = "none"
     /\ \E k \in 1..Len(taken) : ~HasHandlers(appended[taken[k]].name))
        => /\ \A i \in Ids : \E k \in 1..Len(taken) : taken[k] = i
           /\ \A i \in Ids : HasHandlers(appended[i].name)
                  => \E k \in 1..Len(Dispatched) : Dispatched[k] = i

\* C4: enqueuing from inside a handler never starts a nested process_events:
\* at most one process_events call is active at any time, so no handler
\* starts while another event's handler is still running.
C4_SingleDrain ==
    /\ Len(stack) <= 1
    /\ Cardinality({k \in 1..Len(stack) : stack[k].pc = "handler"}) <= 1

\* The action form of C4: a publish made while a handler runs only appends.
C4_EnqueueInHandlerOnlyAppends ==
    [][(stack # <<>> /\ appended' # appended)
          => /\ Len(stack') = Len(stack)
             /\ _event_queue' = Append(_event_queue, appended'[Len(appended')])
             /\ taken' = taken /\ invoked' = invoked]_vars

\* C4 witness: a handler is running, the event it published while the queue
\* was being drained waits in the queue, and one process_events is active.
C4_Witness ==
    /\ Len(stack) = 1
    /\ stack[1].pc = "handler"
    /\ _emptying_queue
    /\ \E k \in 1..Len(_event_queue) : _event_queue[k].by = stack[1].ev

\* C5: for every dequeued event whose name maps to a handler list of length
\* n >= 0, exactly those n handlers are invoked once each, in list order;
\* for n = 0 no handler is invoked, no error occurs and draining continues.
C5_HandlersInvokedInListOrder ==
    /\ error = "none"
    /\ \A k \in 1..Len(taken) :
           LET i == taken[k]
               hs == dict_get(HandlerDict, appended[i].name)
           IN  hs # None =>
                   /\ IsPrefix(HandlersOf(i), hs)
                   /\ DispatchDone(i) => HandlersOf(i) = hs

\* The logger method the specification pairs with a lifecycle event.
ExpectedMethod(name) ==
    CASE name = "EVENT_START_EXPERIMENT" -> "log_start_experiment"
      [] name = "EVENT_STOP_EXPERIMENT" -> "log_stop_experiment"
      [] name = "EVENT_START_RUN" -> "log_start_run"
      [] name = "EVENT_STOP_RUN" -> "log_stop_run"
      [] name = "EVENT_START_SPLIT" -> "log_start_split"
      [] name = "EVENT_STOP_SPLIT" -> "log_stop_split"

\* The key of args that carries the entity of a lifecycle event.
EntityKey(name) ==
    CASE name \in {"EVENT_START_EXPERIMENT", "EVENT_STOP_EXPERIMENT"} -> "experiment"
      [] name \in {"EVENT_START_RUN", "EVENT_STOP_RUN"} -> "run"
      [] name \in {"EVENT_START_SPLIT", "EVENT_STOP_SPLIT"} -> "split"

\* C6: for each lifecycle event dispatched with its entity present, every
\* logger of logger_list receives exactly one call, of the method matching
\* the event (log_start_* for a start event, log_stop_* for a stop event),
\* in logger_list order.
C6_LifecycleFanOut ==
    \A i \in Ids :
        (/\ appended[i].name \in LifecycleNames
         /\ dict_get(appended[i].args, EntityKey(appended[i].name)) # None
         /\ DispatchDone(i))
            => CallsOf(i) = [k \in 1..Len(logger_list) |->
                                [logger |-> logger_list[k],
                                 method |-> ExpectedMethod(appended[i].name),
                                 ev |-> i]]

\* C30: after any sequence of enqueues, events with unknown names and
\* handlers that enqueue included, whenever no process_events call is active
\* the drain flag is False and no event is pending in the queue.
C30_IdleMeansDrained ==
    Idle => /\ _emptying_queue = FALSE
            /\ _event_queue = <<>>

----------------------------------------------------------------------------
(* Python values of the grid expander.  A value is [t, v]: t is its type   *)
(* and v its content; a mapping of parameter names to values is the        *)
(* sequence of its [name, value] items in declaration order.               *)

PyNone == [t |-> "None", v |-> <<>>]

\* A number or a string.
Atom(a) == [t |-> "atom", v |-> <<a>>]

\* A list of values.
PyList(elems) == [t |-> "list", v |-> elems]

\* A mapping given as a parameter's value, by its keys in order.
PyDict(keys) == [t |-> "dict", v |-> keys]

\* isinstance(x, dict)
IsDict(x) == x.t = "dict"

\* Whether iter(x) succeeds.
IsIterable(x) == x.t \in {"list", "dict"}

\* What iterating x yields: the elements of a list, the keys of a mapping.
Iterate(x) == IF x.t = "dict" THEN [k \in 1..Len(x.v) |-> Atom(x.v[k])] ELSE x.v

\* Whether len(x) succeeds: an itertools.product object has no len().
HasLen(x) == x.t \in {"list", "dict"}

\* The keys of a mapping of names to values, in declaration order.
Keys(m) == [k \in 1..Len(m) |-> m[k].name]

\* m.get(key) on a mapping of names to values.
MapGet(m, key) ==
    IF \E k \in 1..Len(m) : m[k].name = key
    THEN m[CHOOSE k \in 1..Len(m) : m[k].name = key].value
    ELSE PyNone

RECURSIVE Cartesian(_)
\* The tuples itertools.product yields for the axes, the last axis varying
\* fastest.
Cartesian(axes) ==
    IF axes = <<>> THEN << <<>> >>
    ELSE LET first == Head(axes)
             rest == Cartesian(Tail(axes))
             n == Len(rest)
         IN  [k \in 1..(Len(first) * n) |->
                 <<first[((k - 1) \div n) + 1]>> \o rest[((k - 1) % n) + 1]]

\* itertools.product(*master_list): a product object, or TypeError when an
\* argument is not iterable.
itertools_product(master_list) ==
    IF \E k \in 1..Len(master_list) : ~IsIterable(master_list[k])
    THEN [status |-> "TypeError", value |-> PyNone]
    ELSE [status |-> "ok",
          value |-> [t |-> "product",
                     v |-> Cartesian([k \in 1..Len(master_list) |->
                                          Iterate(master_list[k])])]]

----------------------------------------------------------------------------
(* pypadre/core/model/pipeline/parameters.py *)

\* The mapping {} that ParameterMap.get returns for an unknown identifier.
EmptySpec == [kind |-> "dict", params |-> <<>>]

\* None as a parameter spec.
NoneSpec == [kind |-> "None", params |-> <<>>]

\* The attribute names of a dict object that a component id can coincide
\* with: hasattr(self.map, identifier) is true for these alone.
DictAttributes == {"clear", "copy", "get", "items", "keys", "pop", "values"}

\* Lines 19-24, ParameterMap.get: pmap is the map as the set of its
\* registered ids with the spec of each.
ParameterMap_get(pmap, identifier) ==
    IF identifier \in DictAttributes
    THEN IF identifier \in DOMAIN pmap THEN pmap[identifier] ELSE NoneSpec
    ELSE EmptySpec

\* Lines 16-17, ParameterMap.get_for.
ParameterMap_get_for(pmap, comp) == ParameterMap_get(pmap, comp)

\* Line 101: param_dict = dict().
param_dict == <<>>

\* Line 112: a dict is wrapped in a list.
wrap_dict(parameter_values) ==
    IF IsDict(parameter_values) THEN PyList(<<parameter_values>>) ELSE parameter_values

\* Lines 92-123, create_combinations: [status, grid, names].
create_combinations(parameters) ==
    LET master_list == [k \in 1..Len(parameters) |->
                            wrap_dict(MapGet(param_dict, Keys(parameters)[k]))]
        params_list == Keys(parameters)
        grid == itertools_product(master_list)
    IN  IF grid.status # "ok"
        THEN [status |-> grid.status, grid |-> PyNone, names |-> <<>>]
        ELSE [status |-> "ok", grid |-> grid.value, names |-> params_list]

\* What GridSearch.call raises.
Raised(exception) ==
    [status |-> exception, parameters |-> PyNone, parameter_names |-> <<>>,
     branch |-> FALSE]

\* Line 82, callable(parameters): a parameter spec given as a function.
callable(parameters) == parameters.kind \in {"callable_dict", "callable_list"}

\* Line 82, parameters(): what the function returns, a mapping or a list.
call_parameters(parameters) ==
    IF parameters.kind = "callable_dict"
    THEN [kind |-> "dict", params |-> parameters.params]
    ELSE [kind |-> "list", params |-> <<>>]

isinstance_anything(hyperparams) == TRUE

\* Line 83, isinstance(hyperparameters, dict).
isinstance_dict(hyperparams) == hyperparams.kind = "dict"

\* Lines 56-90, GridSearch.call: the arguments of the HyperParameterSearch
\* it returns, or the exception it raises, with what the call did on the
\* way: the spec get_for returned (got), how many times it was called as a
\* function (called), whether create_combinations was entered (expanded).
GridSearch_call(pmap, comp) ==
    LET parameters == ParameterMap_get_for(pmap, comp)
        resolved == IF callable(parameters) THEN call_parameters(parameters)
                    ELSE parameters
        did(expanded) == [got |-> parameters,
                          called |-> IF callable(parameters) THEN 1 ELSE 0,
                          expanded |-> expanded]
    IN  IF ~isinstance_dict(resolved) THEN Raised("AssertionError") @@ did(FALSE)
        ELSE LET made == create_combinations(resolved.params)
             IN  IF made.status # "ok" THEN Raised(made.status) @@ did(TRUE)
                 ELSE IF ~HasLen(made.grid) THEN Raised("TypeError") @@ did(TRUE)
                 ELSE [status |-> "ok", parameters |-> made.grid,
                       parameter_names |-> made.names,
                       branch |-> Len(made.grid.v) > 1] @@ did(TRUE)

----------------------------------------------------------------------------
(* The inputs and the steps of the grid expander. *)

Pending == [status |-> "pending"]

ParamNames == {"C", "kernel", "class_weight"}

\* The values a parameter's list is made of.
AtomsOf(name) ==
    CASE name = "C" -> {Atom("0.1"), Atom("0.2")}
      [] name = "kernel" -> {Atom("rbf"), Atom("linear")}
      [] name = "class_weight" -> {Atom("balanced")}

\* The sequences over S of length 0..n.
SeqsUpTo(S, n) == UNION {[1..k -> S] : k \in 0..n}

\* A parameter's value: a list of up to MaxValues values, or a single mapping.
ValuesOf(name) ==
    {PyList(l) : l \in SeqsUpTo(AtomsOf(name), MaxValues)}
    \cup {PyDict(<<"0", "1">>)}

\* The sequences of up to MaxParams distinct parameter names.
NameOrders ==
    {s \in SeqsUpTo(ParamNames, MaxParams) :
        \A i \in 1..Len(s), j \in 1..Len(s) : i # j => s[i] # s[j]}

\* The mappings that declare the names of s in that order.
MappingsOf(s) ==
    {[k \in 1..Len(s) |-> [name |-> s[k], value |-> vs[k]]] :
        vs \in {f \in [1..Len(s) -> UNION {ValuesOf(n) : n \in ParamNames}] :
                   \A k \in 1..Len(s) : f[k] \in ValuesOf(s[k])}}

\* The mappings of up to MaxParams distinct names to values, in every
\* declaration order.
ParamMappings == UNION {MappingsOf(s) : s \in NameOrders}

\* The ids of the pipeline components: a step name, and a step name that is
\* also an attribute of dict.
ComponentIds == {"clf", "copy"}

\* The ways a parameter spec is registered: the mapping itself, a function
\* that returns the mapping, a function that returns a list.
Forms == {"dict", "callable_dict", "callable_list"}

\* The parameter spec registered for the component.
RegisteredSpec ==
    [kind |-> form,
     params |-> IF form = "callable_list" THEN <<>> ELSE hyperparameters]

\* The ParameterMap of a behaviour: the spec registered under the
\* component's id, or nothing.
TheParameterMap ==
    IF registered
    THEN [c \in {component} |-> RegisteredSpec]
    ELSE [c \in {} |-> NoneSpec]

\* create_combinations is called with the mapping.
call_create_combinations ==
    /\ combinations = Pending
    /\ hyperparameters \in ParamMappings
    /\ combinations' = create_combinations(hyperparameters)
    /\ UNCHANGED <<hyperparameters, component, registered, form, search,
                   busvars, storevars, creatorvars, restvars>>

\* GridSearch.call is called for the component.
call_GridSearch ==
    /\ search = Pending
    /\ component \in ComponentIds
    /\ search' = GridSearch_call(TheParameterMap, component)
    /\ UNCHANGED <<hyperparameters, component, registered, form, combinations,
                   busvars, storevars, creatorvars, restvars>>

\* The parameter spec get_for hands GridSearch.call for the component.
Resolved == ParameterMap_get_for(TheParameterMap, component)

----------------------------------------------------------------------------
(* The claims about the grid expander. *)

\* The value lists of the mapping, a single mapping counting as a list of
\* one value, itself.
Axes(m) ==
    [k \in 1..Len(m) |-> IF IsDict(m[k].value) THEN <<m[k].value>> ELSE m[k].value.v]

RECURSIVE ProductOfLengths(_)
ProductOfLengths(axes) ==
    IF axes = <<>> THEN 1 ELSE Len(Head(axes)) * ProductOfLengths(Tail(axes))

AllNonEmptyLists(m) ==
    \A k \in 1..Len(m) : m[k].value.t = "list" /\ m[k].value.v # <<>>

\* The mapping {C: [0.1, 0.2], kernel: [rbf, linear]}.
ExampleMapping ==
    << [name |-> "C", value |-> PyList(<<Atom("0.1"), Atom("0.2")>>)],
       [name |-> "kernel", value |-> PyList(<<Atom("rbf"), Atom("linear")>>)] >>

\* C7: for any mapping of names to non-empty value lists the expander
\* returns the names in declaration order and the Cartesian product of the
\* lists in that order, last name fastest, with as many combinations as the
\* product of the list lengths; the example mapping yields (0.1, rbf),
\* (0.1, linear), (0.2, rbf), (0.2, linear) with the names C, kernel.
C7_GridIsCartesianProduct ==
    (combinations # Pending /\ AllNonEmptyLists(hyperparameters)) =>
        /\ combinations.status = "ok"
        /\ combinations.names = Keys(hyperparameters)
        /\ combinations.grid.v = Cartesian(Axes(hyperparameters))
        /\ Len(combinations.grid.v) = ProductOfLengths(Axes(hyperparameters))
        /\ hyperparameters = ExampleMapping =>
               /\ combinations.names = <<"C", "kernel">>
               /\ combinations.grid.v =
                      << <<Atom("0.1"), Atom("rbf")>>, <<Atom("0.1"), Atom("linear")>>,
                         <<Atom("0.2"), Atom("rbf")>>, <<Atom("0.2"), Atom("linear")>> >>

\* C8: if any parameter's value list is empty the expander yields zero
\* combinations; it does not fail.
C8_EmptyAxisEmptyGrid ==
    (/\ combinations # Pending
     /\ \E k \in 1..Len(hyperparameters) : hyperparameters[k].value = PyList(<<>>))
        => /\ combinations.status = "ok"
           /\ combinations.grid.v = <<>>

\* C9: expanding the empty mapping yields exactly one combination, the empty
\* tuple, with no names, and GridSearch.call returns a search flagged
\* non-branching.
C9_EmptyMappingOneCombination ==
    /\ (combinations # Pending /\ hyperparameters = <<>>) =>
           /\ combinations.status = "ok"
           /\ combinations.grid.v = << <<>> >>
           /\ combinations.names = <<>>
    /\ (search # Pending /\ Resolved = EmptySpec) =>
           /\ search.status = "ok"
           /\ search.branch = FALSE

\* C10: a parameter whose value is a single mapping is one axis with one
\* value, the mapping itself: the expander succeeds and every combination
\* holds the mapping at the parameter's position.
C10_MappingValueIsOneAxis ==
    (/\ combinations # Pending
     /\ \E k \in 1..Len(hyperparameters) : IsDict(hyperparameters[k].value))
        => /\ combinations.status = "ok"
           /\ combinations.grid.v = Cartesian(Axes(hyperparameters))
           /\ \A k \in 1..Len(hyperparameters) :
                  IsDict(hyperparameters[k].value) =>
                      \A i \in 1..Len(combinations.grid.v) :
                          combinations.grid.v[i][k] = hyperparameters[k].value

\* The hyperparameters GridSearch.call expands for the component: the spec
\* it resolves, or what the spec returns when it is a function.
Hyperparameters ==
    IF callable(Resolved) THEN call_parameters(Resolved) ELSE Resolved

\* C11: GridSearch.call returns a search whose branch flag is false when the
\* grid of the resolved mapping has exactly one combination and true when it
\* has more than one.
C11_BranchFlag ==
    (/\ search # Pending
     /\ Hyperparameters.kind = "dict"
     /\ ProductOfLengths(Axes(Hyperparameters.params)) >= 1)
        => /\ search.status = "ok"
           /\ search.branch = (ProductOfLengths(Axes(Hyperparameters.params)) > 1)

\* C12: get_for(component) returns the parameter spec registered under the
\* component's id, and the empty mapping when nothing is registered for it;
\* it never raises.
C12_GetForReturnsRegistered ==
    search # Pending =>
        search.got = IF registered THEN RegisteredSpec ELSE EmptySpec

\* C13: GridSearch.call calls a callable parameter spec exactly once (and
\* any other spec never) before it expands anything, and whenever the
\* resolved value is not a mapping the call fails with AssertionError
\* before create_combinations is entered: no search is returned.
C13_CallableResolvedThenAsserted ==
    search # Pending =>
        /\ search.called = (IF callable(search.got) THEN 1 ELSE 0)
        /\ search.expanded => Hyperparameters.kind = "dict"
        /\ Hyperparameters.kind # "dict" =>
               /\ search.status = "AssertionError"
               /\ ~search.expanded

\* A function that returns a list was resolved and called, and the call
\* failed on the assertion.
C13_Witness ==
    /\ search # Pending
    /\ search.got.kind = "callable_list"
    /\ search.called = 1
    /\ search.status = "AssertionError"

----------------------------------------------------------------------------
(* The local file backends of splits and executions:                       *)
(* pypadre/backend/local/file/project/experiment/execution/.               *)

\* No directory at a path.
Absent == [t |-> "absent"]

\* A directory without a metadata.json.
NoFile == [keys |-> "none", body |-> "none"]

\* A directory by the content of its metadata.json.
Dir(metadata_json) == [t |-> "dir", metadata |-> metadata_json]

\* The metadata of an entity: a mapping, by the type of its keys and the
\* rest of its content.
Metadata ==
    {[keys |-> "str", body |-> "m1"], [keys |-> "str", body |-> "m2"],
     [keys |-> "int", body |-> "m1"]}

\* JSonSerializer: the keys of a serialised mapping are strings.
serialise(metadata) == [keys |-> "str", body |-> metadata.body]

deserialise(metadata_json) == metadata_json

\* The ids the callers give their splits, and the names of the executions.
SplitIds == {"s1", "s2"}

ExecutionNames == {"e1"}

\* The values uuid.uuid4() can return.
Uuids == {"u1"}

\* Line 60, uuid.uuid4(): an id no directory is named after.
uuid_uuid4(dirs) == {u \in Uuids : dirs[u] = Absent}

\* Split: lines 32-33, to_folder_name.
Split_to_folder_name(split) == split.id

\* Execution: lines 22-23, to_folder_name.
Execution_to_folder_name(obj) == obj.name

\* get_dir: the directory of a folder name under the backend's root_dir.
get_dir(folder_name) == folder_name

os_path_exists(dirs, directory) == dirs[directory] # Absent

\* shutil.rmtree(directory): FileNotFoundError when there is no directory.
shutil_rmtree(dirs, directory) ==
    IF dirs[directory] = Absent
    THEN [raised |-> "FileNotFoundError", dirs |-> dirs]
    ELSE [raised |-> "none", dirs |-> [dirs EXCEPT ![directory] = Absent]]

\* os.mkdir(directory), the directory being absent.
os_mkdir(dirs, directory) == [dirs EXCEPT ![directory] = Dir(NoFile)]

\* write_file(directory, METADATA_FILE, metadata): the directory is
\* created when it is missing and the serialised metadata is its
\* metadata.json.
write_file(dirs, directory, metadata) ==
    [dirs EXCEPT ![directory] = Dir(serialise(metadata))]

\* get_file(directory, META_FILE): the deserialised content, or None.
get_file(dirs, directory) ==
    IF dirs[directory] = Absent \/ dirs[directory].metadata = NoFile
    THEN PyNone
    ELSE [t |-> "dict", v |-> deserialise(dirs[directory].metadata)]

\* The outcome of a put: the exception raised or "none", the directories
\* after it, the id of the entity after it.
PutOutcome(raised, dirs, id, directory) ==
    [raised |-> raised, dirs |-> dirs, id |-> id, directory |-> directory]

assign_id_always(split, uuid) == [split EXCEPT !.id = uuid]

\* Split: lines 59-60, a split without an id is given uuid.uuid4().
assign_id(split, uuid) ==
    IF split.id = None THEN [split EXCEPT !.id = uuid] ELSE split

\* Split: lines 51-71, put. uuid is what uuid.uuid4() returns when called.
Split_put(dirs, split, allow_overwrite, uuid) ==
    LET id == assign_id(split, uuid).id
        directory == get_dir(Split_to_folder_name(assign_id(split, uuid)))
    IN  IF os_path_exists(dirs, directory) /\ ~allow_overwrite
        THEN PutOutcome("ValueError", dirs, id, directory)
        ELSE LET removed == shutil_rmtree(dirs, directory)
             IN  IF removed.raised # "none"
                 THEN PutOutcome(removed.raised, dirs, id, directory)
                 ELSE PutOutcome("none",
                                 write_file(os_mkdir(removed.dirs, directory),
                                            directory, split.metadata),
                                 id, directory)

\* Split: lines 48-49, get: the body is pass.
Split_get(dirs, uid) == PyNone

\* Split: lines 35-36, get_by_dir: the body is pass.
Split_get_by_dir(dirs, directory) == PyNone

\* Execution: lines 39-46, put. The message of the ValueError is built from
\* experiment.name, and no name experiment is defined.
Execution_put(dirs, execution, allow_overwrite) ==
    LET directory == get_dir(Execution_to_folder_name(execution))
    IN  IF os_path_exists(dirs, directory) /\ ~allow_overwrite
        THEN PutOutcome("NameError", dirs, execution.name, directory)
        ELSE PutOutcome("none", write_file(dirs, directory, execution.metadata),
                        execution.name, directory)

\* The keys the progress message is formatted with.
ProgressKeys == {"curr_value", "limit", "phase"}

\* "...{curr_value}/{limit}. phase={phase}".format(**kwargs): KeyError when
\* a key is not among the keyword arguments.
str_format(kwargs) == IF ProgressKeys \subseteq kwargs THEN "none" ELSE "KeyError"

\* "Split " + split: TypeError unless split is a str.
str_concat(split) == IF split.t = "str" THEN "none" ELSE "TypeError"

\* Split: lines 38-39, log: the body is pass.
Split_log(msg) == "none"

\* Split: lines 41-43, put_progress: what it raises.  The concatenation is
\* evaluated before the format call.
Split_put_progress(split, kwargs) ==
    IF str_concat(split) # "none" THEN str_concat(split)
    ELSE IF str_format(kwargs) # "none" THEN str_format(kwargs)
    ELSE Split_log("Split ... PROGRESS")

\* ILogFileRepository.log: the message is appended to the log.
Metric_log(msg) == "none"

\* MetricFileRepository: lines 33-35, put_progress: what it raises.
Metric_put_progress(run, kwargs) ==
    IF str_format(kwargs) # "none" THEN str_format(kwargs)
    ELSE Metric_log("RUN COMPUTATION")

\* Execution: lines 34-37, get_by_dir: the metadata is read and dropped.
Execution_get_by_dir(dirs, directory) ==
    LET metadata == get_file(dirs, directory)
    IN  PyNone

\* Execution: lines 25-32, get.
Execution_get(dirs, uid) == Execution_get_by_dir(dirs, get_dir(uid))

----------------------------------------------------------------------------
(* The calls on the file backends. *)

NoCall == [op |-> "none"]

\* What a put leaves in last.
PutCall(entity, given, allow_overwrite, metadata, before, outcome) ==
    [op |-> "put", entity |-> entity, directory |-> outcome.directory,
     given |-> given, id |-> outcome.id,
     allow_overwrite |-> allow_overwrite, metadata |-> metadata,
     before |-> before, raised |-> outcome.raised, returned |-> PyNone]

\* What a get or a get_by_dir leaves in last.
ReadCall(op, entity, directory, returned) ==
    [op |-> op, entity |-> entity, directory |-> directory,
     allow_overwrite |-> FALSE, metadata |-> NoFile,
     before |-> Absent, raised |-> "none", returned |-> returned]

\* The history after a put.
Recorded(entity, before, outcome) ==
    /\ written' = IF outcome.raised = "none"
                  THEN written \cup {<<entity, outcome.directory>>}
                  ELSE written
    /\ overwritten' = IF outcome.raised = "none" /\ before # Absent
                      THEN overwritten \cup {<<entity, outcome.directory>>}
                      ELSE overwritten

\* backend.put(split, allow_overwrite) for a split with or without an id.
split_put ==
    \E id \in SplitIds \cup {None}, metadata \in Metadata,
       allow_overwrite \in BOOLEAN, uuid \in uuid_uuid4(split_dirs) :
        LET outcome == Split_put(split_dirs, [id |-> id, metadata |-> metadata],
                                 allow_overwrite, uuid)
            before == split_dirs[outcome.directory]
        IN  /\ split_dirs' = outcome.dirs
            /\ last' = PutCall("split", id, allow_overwrite, metadata, before, outcome)
            /\ Recorded("split", before, outcome)
            /\ UNCHANGED <<execution_dirs, busvars, gridvars, creatorvars, restvars>>

split_get ==
    \E uid \in SplitIds :
        /\ last' = ReadCall("get", "split", get_dir(uid), Split_get(split_dirs, uid))
        /\ UNCHANGED <<split_dirs, execution_dirs, written, overwritten,
                       busvars, gridvars, creatorvars, restvars>>

split_get_by_dir ==
    \E uid \in SplitIds :
        /\ last' = ReadCall("get_by_dir", "split", get_dir(uid),
                            Split_get_by_dir(split_dirs, get_dir(uid)))
        /\ UNCHANGED <<split_dirs, execution_dirs, written, overwritten,
                       busvars, gridvars, creatorvars, restvars>>

\* backend.put(execution, allow_overwrite).
execution_put ==
    \E name \in ExecutionNames, metadata \in Metadata, allow_overwrite \in BOOLEAN :
        LET outcome == Execution_put(execution_dirs,
                                     [name |-> name, metadata |-> metadata],
                                     allow_overwrite)
            before == execution_dirs[outcome.directory]
        IN  /\ execution_dirs' = outcome.dirs
            /\ last' = PutCall("execution", name, allow_overwrite, metadata, before,
                                outcome)
            /\ Recorded("execution", before, outcome)
            /\ UNCHANGED <<split_dirs, busvars, gridvars, creatorvars, restvars>>

execution_get ==
    \E uid \in ExecutionNames :
        /\ last' = ReadCall("get", "execution", get_dir(uid),
                            Execution_get(execution_dirs, uid))
        /\ UNCHANGED <<split_dirs, execution_dirs, written, overwritten,
                       busvars, gridvars, creatorvars, restvars>>

\* What a put_progress leaves in last.
ProgressCall(entity, directory, before, raised) ==
    [op |-> "put_progress", entity |-> entity, directory |-> directory,
     allow_overwrite |-> FALSE, metadata |-> NoFile,
     before |-> before, raised |-> raised, returned |-> PyNone]

\* The ways a caller names the split: the Split object, or its id as a str.
SplitArguments == {[t |-> t, id |-> id] : t \in {"Split", "str"}, id \in SplitIds}

\* backend.put_progress(split, **kwargs) with any of the keywords.
split_put_progress ==
    \E split \in SplitArguments, kwargs \in SUBSET ProgressKeys :
        /\ last' = ProgressCall("split", get_dir(split.id), split_dirs[get_dir(split.id)],
                                Split_put_progress(split, kwargs))
        /\ UNCHANGED <<split_dirs, execution_dirs, written, overwritten,
                       busvars, gridvars, creatorvars, restvars>>

\* The metric repository's put_progress(run, **kwargs) for the run of an
\* execution.
metric_put_progress ==
    \E run \in ExecutionNames, kwargs \in SUBSET ProgressKeys :
        /\ last' = ProgressCall("execution", get_dir(run), execution_dirs[get_dir(run)],
                                Metric_put_progress(run, kwargs))
        /\ UNCHANGED <<split_dirs, execution_dirs, written, overwritten,
                       busvars, gridvars, creatorvars, restvars>>

\* The directories of an entity type.
DirsOf(entity) == IF entity = "split" THEN split_dirs ELSE execution_dirs

\* What reading the metadata of a stored entity is to yield.
StoredMetadata(entity, directory) ==
    [t |-> "dict", v |-> DirsOf(entity)[directory].metadata]

----------------------------------------------------------------------------
(* The claims about the file backends. *)

\* C14: a put for a split or an execution whose directory exists, with
\* allow_overwrite=False, raises ValueError and leaves the directory and its
\* metadata as they were.
C14_ConflictRaisesValueError ==
    (last.op = "put" /\ last.before # Absent /\ ~last.allow_overwrite) =>
        /\ last.raised = "ValueError"
        /\ DirsOf(last.entity)[last.directory] = last.before

\* C15: a put over an existing entity with allow_overwrite=True succeeds and
\* stores its content, and a get of an entity stored that way returns the
\* content last written.
C15_OverwriteThenGet ==
    /\ (last.op = "put" /\ last.before # Absent /\ last.allow_overwrite) =>
           /\ last.raised = "none"
           /\ DirsOf(last.entity)[last.directory] = Dir(serialise(last.metadata))
    /\ (last.op = "get" /\ <<last.entity, last.directory>> \in overwritten) =>
           /\ last.raised = "none"
           /\ last.returned = StoredMetadata(last.entity, last.directory)

\* C16: the first put of a split whose directory does not exist succeeds for
\* either value of allow_overwrite: the directory exists afterwards with the
\* metadata in its metadata.json.
C16_FirstPutCreates ==
    (last.op = "put" /\ last.entity = "split" /\ last.before = Absent) =>
        /\ last.raised = "none"
        /\ split_dirs[last.directory] = Dir(serialise(last.metadata))

\* C17: get_by_dir on the directory a split was put to yields a value equal
\* to the metadata written.
C17_PutThenGetByDir ==
    (/\ last.op = "get_by_dir"
     /\ last.entity = "split"
     /\ <<"split", last.directory>> \in written)
        => last.returned = StoredMetadata("split", last.directory)

C26_PutProgressInformational ==
    last.op = "put_progress" =>
        /\ last.raised = "none"
        /\ DirsOf(last.entity)[last.directory] = last.before

----------------------------------------------------------------------------
(* padre/ExperimentCreator.py *)

\* The value False, which create_test_pipeline returns for a bad pipeline.
False == "False"

\* The arguments create_experiment is called with.
ExperimentNames == {"exp1"}

Descriptions == {"d1"}

\* Dataset objects with integer-valued and with continuous targets.
Datasets == {"ds_int", "ds_cont"}

\* Dataset names given as a str; none of them is a local dataset.
DatasetNames == {"no_such_dataset"}

\* Pipelines with and without a classifier.
Workflows == {"wf_clf", "wf_reg"}

Backends == {"b1"}

ParamValues == {"p1"}

\* dataset.targets(), in tenths.
targets(dataset) ==
    IF dataset = "ds_int" THEN <<10, 20, 0>> ELSE <<15, 23, 9>>

\* Line 253, np.all(np.mod(dataset.targets(), 1) == 0).
all_integer(dataset) ==
    \A k \in 1..Len(targets(dataset)) : targets(dataset)[k] % 10 = 0

\* workflow.named_steps, in order.
named_steps(workflow) ==
    IF workflow = "wf_clf" THEN <<"PCA", "SVC">> ELSE <<"PCA", "linear regression">>

\* name_mappings.get(estimator).get('type').
estimator_type(estimator) ==
    CASE estimator = "SVC" -> "Classification"
      [] estimator = "linear regression" -> "Regression"
      [] OTHER -> "Transformation"

\* ''.join(parts): TypeError when a part is not a str.
str_join(parts) ==
    IF \E k \in 1..Len(parts) : parts[k] = None THEN "TypeError" ELSE "none"

\* default_logger.log, warn and error report the message and return.
default_logger(message) == "none"

\* A logger call whose message is ''.join(parts): what it raises.
logged(parts) ==
    IF str_join(parts) # "none" THEN str_join(parts) ELSE default_logger(parts)

\* self._local_dataset.
_local_dataset == {"Iris", "Boston_House_Prices"}

\* load_sklearn_toys(): the dataset loaded for a local name.
load_sklearn_toys(name) ==
    IF name = "Boston_House_Prices" THEN "ds_cont" ELSE "ds_int"

\* Lines 281-297, get_local_dataset: the dataset of a local name, else None.
get_local_dataset(name) ==
    IF name = None THEN None
    ELSE IF name \in _local_dataset THEN load_sklearn_toys(name)
    ELSE None

\* d[key] = value on a dict modelled as a function.
dict_set(d, key, value) ==
    [k \in DOMAIN d \cup {key} |-> IF k = key THEN value ELSE d[k]]

\* What create_experiment leaves: the two dicts, the exception that reached
\* the caller or "none", the value returned.
CreateOutcome(experiments, param_values, raised) ==
    [experiments |-> experiments, param_values |-> param_values,
     raised |-> raised, returned |-> None]

\* Lines 238-239: the arguments a creation cannot do without.
missing_required_but_backend(description, workflow, backend) ==
    description = None \/ workflow = None \/ workflow = False

missing_required(description, workflow, backend) ==
    description = None \/ workflow = None \/ backend = None \/ workflow = False

name_always_free(experiments, name) == TRUE

\* Line 262, self._experiments.get(name, None) is None.
name_is_free(experiments, name) == name \notin DOMAIN experiments

classifier_never_rejected(dataset, workflow) == FALSE

\* Lines 252-259 and 428-436: a classifier in the pipeline of a dataset with
\* continuous targets.
classifier_on_continuous(dataset, workflow) ==
    /\ dataset # None
    /\ ~all_integer(dataset)
    /\ \E k \in 1..Len(named_steps(workflow)) :
           estimator_type(named_steps(workflow)[k]) = "Classification"

\* Lines 220-279, create_experiment, args being its arguments by name.
ExperimentCreator_create_experiment(experiments, param_values, args) ==
    LET name == args.name
        description == args.description
        dataset == args.dataset
        workflow == args.workflow
        backend == args.backend
        params == args.params
        unchanged(raised) == CreateOutcome(experiments, param_values, raised)
        ds == IF dataset \in DatasetNames \cup _local_dataset
              THEN get_local_dataset(dataset) ELSE dataset
        data_dict == [description |-> description, dataset |-> ds,
                      workflow |-> workflow, backend |-> backend]
    IN  IF missing_required(description, workflow, backend)
        THEN IF description = None
                    /\ logged(<<"Description is missing for experiment:", name>>) # "none"
             THEN unchanged("TypeError")
             ELSE IF backend = None
                    /\ logged(<<"Backend is missing for experiment:", name>>) # "none"
             THEN unchanged("TypeError")
             ELSE unchanged("none")
        ELSE IF classifier_on_continuous(ds, workflow) THEN unchanged("none")
        ELSE IF name_is_free(experiments, name)
        THEN CreateOutcome(dict_set(experiments, name, data_dict),
                           IF params # None
                           THEN dict_set(param_values, name, params)
                           ELSE param_values,
                           logged(<<name, " created successfully!">>))
        ELSE unchanged(logged(<<"Experiment name: ", name,
                                  " already present. Experiment name should be unique">>))

\* Lines 104-138, validate_parameters: the parameters of the known
\* estimators under their implementation names, None when none is left.
validate_parameters(params) ==
    IF params = "q_known" THEN "q_known_validated" ELSE None

\* Lines 56-73, set_param_values: the parameter values after it.
ExperimentCreator_set_param_values(param_values, experiment_name, params) ==
    IF experiment_name = None THEN param_values
    ELSE IF params = None THEN param_values
    ELSE dict_set(param_values, experiment_name, validate_parameters(params))

\* What do_experiments did: the Experiment objects it constructed and
\* started a grid search on, in order, and the exception that ended it.
Done(constructed, raised) == [constructed |-> constructed, raised |-> raised]

RECURSIVE do_datasets(_, _, _)
\* Lines 420-451, the loop over the datasets listed for one experiment.
do_datasets(entry, experiment, datasets) ==
    IF datasets = <<>> THEN Done(<<>>, "none")
    ELSE LET dataset == Head(datasets)
             desc == str_join(<<entry.description, "with dataset ", dataset>>)
             data == get_local_dataset(dataset)
             rest == do_datasets(entry, experiment, Tail(datasets))
         IN  IF desc # "none" THEN Done(<<>>, desc)
             ELSE IF data = None THEN rest
             ELSE IF classifier_on_continuous(data, entry.workflow) THEN rest
             ELSE IF str_join(<<experiment, "(", dataset, ")">>) # "none"
             THEN Done(<<>>, str_join(<<experiment, "(", dataset, ")">>))
             ELSE Done(<<[experiment |-> experiment, dataset |-> data,
                          workflow |-> entry.workflow]>> \o rest.constructed,
                       rest.raised)

\* Lines 396-451, do_experiments, called with None or with the datasets of
\* one experiment.
ExperimentCreator_do_experiments(experiments, experiment, datasets) ==
    IF experiment \notin DOMAIN experiments THEN Done(<<>>, "none")
    ELSE IF datasets = PyNone THEN Done(<<>>, "none")
    ELSE do_datasets(experiments[experiment], experiment, datasets.v)

\* Lines 19, 36 and 44-54: __init__ binds neither _experiments nor
\* _param_value_dict on the instance, so what an instance reads as
\* self._experiments or self._param_value_dict is the dict of the class.
attribute_of(instance, class_attribute) == class_attribute

----------------------------------------------------------------------------
(* The calls of create_experiment. *)

NoCreate == [op |-> "none"]

\* What a name holds in the registry and in the parameter values.
Held(experiments, param_values, name) ==
    [entry |-> experiments[name], params |-> dict_get(param_values, name)]

NoneOr(S) == S \cup {None}

\* The ExperimentCreator objects of the program.
Instances == {"creator1", "creator2"}

\* Whether a call that leaves the class dicts as after changes what an
\* instance other than self reads.
SeenByOthersChanged(self, experiments_after, param_values_after) ==
    \E other \in Instances \ {self} :
        \/ attribute_of(other, experiments_after) # attribute_of(other, _experiments)
        \/ attribute_of(other, param_values_after)
               # attribute_of(other, _param_value_dict)

\* creator.create_experiment(name, description, dataset, workflow, backend,
\* params) with any of the arguments missing.
create_experiment ==
    \E self \in Instances,
       name \in NoneOr(ExperimentNames), description \in NoneOr(Descriptions),
       dataset \in NoneOr(Datasets \cup DatasetNames),
       workflow \in NoneOr(Workflows \cup {False}), backend \in NoneOr(Backends),
       params \in NoneOr(ParamValues) :
      \E outcome \in {ExperimentCreator_create_experiment(
                           _experiments, _param_value_dict,
                           [name |-> name, description |-> description,
                            dataset |-> dataset, workflow |-> workflow,
                            backend |-> backend, params |-> params])} :
        LET duplicate == name \in DOMAIN _experiments
            given == [entry |-> [description |-> description, dataset |-> dataset,
                                workflow |-> workflow, backend |-> backend],
                      params |-> params]
        IN  /\ _experiments' = outcome.experiments
            /\ _param_value_dict' = outcome.param_values
            /\ first_created' =
                   IF name \in DOMAIN first_created
                          \/ name \notin DOMAIN outcome.experiments
                   THEN first_created
                   ELSE dict_set(first_created, name, outcome.experiments[name])
            /\ last_create' =
                   [op |-> "create_experiment", name |-> name,
                    classifier_pairing |-> /\ description # None
                                           /\ backend # None
                                           /\ dataset = "ds_cont"
                                           /\ workflow = "wf_clf",
                    others_changed |-> SeenByOthersChanged(self, outcome.experiments,
                                                           outcome.param_values),
                    missing |-> None \in {name, description, dataset, workflow, backend},
                    duplicate |-> duplicate,
                    differs |-> duplicate /\
                                given # Held(_experiments, _param_value_dict, name),
                    before |-> IF duplicate
                               THEN Held(_experiments, _param_value_dict, name)
                               ELSE [entry |-> None, params |-> None],
                    changed |-> \/ outcome.experiments # _experiments
                                \/ outcome.param_values # _param_value_dict,
                    raised |-> outcome.raised, returned |-> outcome.returned]
            /\ UNCHANGED <<busvars, gridvars, storevars, restvars>>

\* creator.set_param_values(experiment_name, param_dict).
set_param_values ==
    \E self \in Instances, experiment_name \in NoneOr(ExperimentNames),
       params \in NoneOr({"q_known", "q_unknown"}) :
        LET param_values == ExperimentCreator_set_param_values(
                                _param_value_dict, experiment_name, params)
        IN  /\ _param_value_dict' = param_values
            /\ last_create' =
                   [op |-> "set_param_values", name |-> experiment_name,
                    others_changed |->
                        SeenByOthersChanged(self, _experiments, param_values),
                    changed |-> param_values # _param_value_dict]
            /\ UNCHANGED <<_experiments, first_created, busvars, gridvars, storevars, restvars>>

\* The lists of dataset names given for an experiment, or None for it.
DatasetLists ==
    {PyNone, PyList(<<"Boston_House_Prices">>),
     PyList(<<"Boston_House_Prices", "Iris">>),
     PyList(<<"no_such_dataset", "Iris">>)}

\* creator.do_experiments({experiment: datasets}).
do_experiments ==
    \E self \in Instances, experiment \in NoneOr(ExperimentNames),
       datasets \in DatasetLists :
        LET done == ExperimentCreator_do_experiments(
                        attribute_of(self, _experiments), experiment, datasets)
        IN  /\ last_create' =
                   [op |-> "do_experiments", name |-> experiment,
                    datasets |-> datasets, constructed |-> done.constructed,
                    raised |-> done.raised]
            /\ UNCHANGED <<_experiments, _param_value_dict, first_created,
                           busvars, gridvars, storevars, restvars>>

----------------------------------------------------------------------------
(* The claims about the experiment registry. *)

\* C18: a create_experiment call for a name that is already registered is
\* rejected: after it the registry entry of the name (description, dataset,
\* workflow, backend) is the one of the first creation and the stored
\* parameters are what they were.
C18_DuplicateNameRejected ==
    (last_create.op = "create_experiment" /\ last_create.duplicate) =>
        /\ _experiments[last_create.name] = first_created[last_create.name]
        /\ _experiments[last_create.name] = last_create.before.entry
        /\ dict_get(_param_value_dict, last_create.name) = last_create.before.params

\* A second creation with other arguments was attempted for a name.
C18_Witness ==
    /\ last_create.op = "create_experiment"
    /\ last_create.duplicate
    /\ last_create.differs
    /\ last_create.name \in ExperimentNames

\* C19: create_experiment never raises: called with a missing (None) name,
\* description, dataset, workflow or backend, or with a registered name, it
\* returns None and leaves the registry and the stored parameters unchanged.
C19_CreationNeverRaises ==
    /\ last_create.op = "create_experiment" => last_create.raised = "none"
    /\ (/\ last_create.op = "create_experiment"
        /\ last_create.missing \/ last_create.duplicate)
           => /\ last_create.returned = None
              /\ ~last_create.changed

\* C20 as stated: every registry entry has a dataset, a workflow and a
\* backend that are not None.
C20_EntriesHaveDatasetWorkflowBackend ==
    \A name \in DOMAIN _experiments :
        /\ _experiments[name].dataset # None
        /\ _experiments[name].workflow # None
        /\ _experiments[name].backend # None

\* C20, amended: every registry entry has a workflow and a backend that are
\* not None; its dataset may be missing.
C20_EntriesHaveWorkflowBackend ==
    \A name \in DOMAIN _experiments :
        /\ _experiments[name].workflow \notin {None, False}
        /\ _experiments[name].backend # None

\* An experiment was admitted without a dataset.
C20_Witness ==
    \E name \in DOMAIN _experiments :
        /\ name \in ExperimentNames
        /\ _experiments[name].dataset = None
        /\ _experiments[name].workflow \in Workflows
        /\ _experiments[name].backend \in Backends

C27_InstancesShareNoState ==
    last_create.op \in {"create_experiment", "set_param_values"} =>
        ~last_create.others_changed

----------------------------------------------------------------------------
(* The app and its backends: src/padre/app/padre_app.py and
   src/pypadre/app/base_app.py.  One dataset id is followed; a backend holds
   under it its own copy of the dataset, or nothing. *)

\* Lines 615-621, the getter of PadreApp.offline.
PadreApp_offline == config_offline

\* Lines 623-625, the setter of PadreApp.offline: the attribute after it.
offline_setter(offline) == <<offline>>

\* What a call on the app did: what it returned, whether it called the
\* remote backend, what the two backends hold after it, what it raised.
AppOutcome(returned, remote_called, local, remote, raised) ==
    [returned |-> returned, remote_called |-> remote_called, local |-> local,
     remote |-> remote, raised |-> raised]

\* Lines 406-430, DatasetApp.get.  put_raises is whether the local
\* backend's put raises when handed None.
DatasetApp_get(local, remote, offline, force_download, cache_it, put_raises) ==
    LET cached == IF ~force_download THEN local ELSE None
        ask == cached = None /\ ~offline
        ds == IF ask THEN remote ELSE cached
    IN  IF ask /\ cache_it /\ ds = None /\ put_raises
        THEN AppOutcome(None, TRUE, local, remote, "AttributeError")
        ELSE AppOutcome(ds, ask, IF ask /\ cache_it THEN ds ELSE local, remote, "none")

\* Lines 282-299, DatasetApp.list: the datasets found, local ones first.
DatasetApp_list(local, remote, offline) ==
    LET local_list == IF local = None THEN <<>> ELSE <<local>>
        remote_list == IF offline \/ remote = None THEN <<>> ELSE <<remote>>
        found == local_list \o remote_list
    IN  AppOutcome(IF found = <<>> THEN <<"Boston_House_Prices", "Iris">> ELSE found,
                   ~offline, local, remote, "none")

\* Lines 437-454, DatasetApp.put.  remote_raises is whether the remote
\* backend's put raises, which it can do while the server is not reachable.
DatasetApp_put(local, remote, offline, upload, remote_raises) ==
    IF upload /\ remote_raises
    THEN AppOutcome(None, TRUE, local, remote, "ConnectionError")
    ELSE AppOutcome(None, upload, "local_copy",
                    IF upload THEN "remote_copy" ELSE remote, "none")

\* base_app.py lines 35-38, IBaseApp.get over the backends local, remote.
IBaseApp_get(local, remote) == AppOutcome(None, TRUE, local, remote, "none")

\* base_app.py lines 30-33, IBaseApp.put over the backends local, remote.
IBaseApp_put(local, remote, remote_raises) ==
    IF remote_raises THEN AppOutcome(None, TRUE, "local_copy", remote, "ConnectionError")
    ELSE AppOutcome(None, TRUE, "local_copy", "remote_copy", "none")

----------------------------------------------------------------------------
(* The calls on the app. *)

NoAppCall == [op |-> "none"]

\* The record of a call: the status the app read, what the backends held
\* before it, which backends it asked, and its outcome.
AppCall(op, consulted, outcome) ==
    [op |-> op, offline |-> PadreApp_offline, assigned |-> _offline,
     local_before |-> local_datasets, remote_before |-> remote_datasets,
     consulted |-> consulted] @@ outcome

AppEffect(op, consulted, outcome) ==
    /\ local_datasets' = outcome.local
    /\ remote_datasets' = outcome.remote
    /\ last_app' = AppCall(op, consulted, outcome)
    /\ UNCHANGED <<config_offline, _offline>>

\* app.offline = v
set_offline ==
    \E v \in BOOLEAN :
        /\ _offline' = offline_setter(v)
        /\ last_app' = [op |-> "set_offline", value |-> v, read |-> PadreApp_offline]
        /\ UNCHANGED <<config_offline, local_datasets, remote_datasets>>
        /\ UNCHANGED <<busvars, gridvars, storevars, creatorvars, gitvars, execvars>>

\* app.datasets.get(id, force_download=..., cache_it=...)
dataset_get ==
    \E force_download \in BOOLEAN, cache_it \in BOOLEAN, put_raises \in BOOLEAN :
        LET outcome == DatasetApp_get(local_datasets, remote_datasets, PadreApp_offline,
                                      force_download, cache_it, put_raises)
        IN  /\ AppEffect("get", (IF force_download THEN {} ELSE {"local"}) \cup
                                (IF outcome.remote_called THEN {"remote"} ELSE {}),
                         outcome)
            /\ UNCHANGED <<busvars, gridvars, storevars, creatorvars, gitvars, execvars>>

\* app.datasets.list()
dataset_list ==
    /\ AppEffect("list", {"local"} \cup (IF PadreApp_offline THEN {} ELSE {"remote"}),
                 DatasetApp_list(local_datasets, remote_datasets, PadreApp_offline))
    /\ UNCHANGED <<busvars, gridvars, storevars, creatorvars, gitvars, execvars>>

\* app.datasets.put(ds, upload=...)
dataset_put ==
    \E upload \in BOOLEAN, remote_raises \in BOOLEAN :
        /\ remote_raises => PadreApp_offline
        /\ AppEffect("put", {},
                     DatasetApp_put(local_datasets, remote_datasets, PadreApp_offline,
                                    upload, remote_raises))
        /\ UNCHANGED <<busvars, gridvars, storevars, creatorvars, gitvars, execvars>>

\* IBaseApp.get(id) of an app over the backends local, remote.
base_get ==
    /\ AppEffect("base_get", {"local", "remote"},
                 IBaseApp_get(local_datasets, remote_datasets))
    /\ UNCHANGED <<busvars, gridvars, storevars, creatorvars, gitvars, execvars>>

\* IBaseApp.put(obj) of an app over the backends local, remote.
base_put ==
    \E remote_raises \in BOOLEAN :
        /\ remote_raises => PadreApp_offline
        /\ AppEffect("base_put", {},
                     IBaseApp_put(local_datasets, remote_datasets, remote_raises))
        /\ UNCHANGED <<busvars, gridvars, storevars, creatorvars, gitvars, execvars>>

----------------------------------------------------------------------------
(* The claims about the app. *)

\* What backend b held under the id before the last call.
HeldBefore(b) == IF b = "local" THEN last_app.local_before ELSE last_app.remote_before

\* C22: a get through the app returns the copy of the first backend, local
\* before remote, that holds the dataset, and returns nothing only when no
\* backend it consulted holds it.
C22_GetPrefersLocalThenRemote ==
    (last_app.op \in {"get", "base_get"} /\ last_app.raised = "none") =>
        /\ last_app.local_before # None => last_app.returned = last_app.local_before
        /\ (last_app.local_before = None /\ "remote" \in last_app.consulted) =>
               last_app.returned = last_app.remote_before
        /\ last_app.returned = None =>
               \A b \in last_app.consulted : HeldBefore(b) = None

\* C23: while the app is offline a put does not call the remote backend's
\* put, does not raise, and still performs the local backend's put.
C23_OfflinePutSkipsRemote ==
    (last_app.op \in {"put", "base_put"} /\ last_app.offline) =>
        /\ ~last_app.remote_called
        /\ last_app.raised = "none"
        /\ last_app.local = "local_copy"

\* C29: after app.offline = v a read of app.offline returns v, and get and
\* list call the remote backend only when the value last assigned is False.
C29_AssignedOfflineIsRead ==
    /\ last_app.op = "set_offline" => last_app.read = last_app.value
    /\ (last_app.op \in {"get", "list"} /\ last_app.assigned # <<>>) =>
           (last_app.remote_called => ~last_app.assigned[1])

----------------------------------------------------------------------------
(* The git backend:
   src/pypadre/backend/interfaces/backend/generic/i_base_git_backend.py.
   A step of a put is <<"init">>, <<"write">>, <<"add">> or
   <<"commit", message>>. *)

\* Line 22.
_DEFAULT_GIT_MSG == "Added file to git"

\* The objects put on the backend.
GitObjects == {"o1", "o2", "o3"}

\* What a part of put did: the steps performed, the attributes and files
\* after it, and the exception raised.
GitOutcome(steps, _repo_, repo_, files, raised) ==
    [steps |-> steps, _repo |-> _repo_, repo |-> repo_, files |-> files,
     raised |-> raised]

\* Lines 32-38, _create_repo: Repo.init, assigned to self.repo.
_create_repo(g) == [g EXCEPT !.steps = @ \o <<<<"init">>>>, !.repo = "Repo"]

\* IBaseFileBackend.put: writes the object's files; an object already on
\* the disk is not overwritten.
IBaseFileBackend_put(g, object) ==
    IF object \in g.files THEN [g EXCEPT !.raised = "ValueError"]
    ELSE [g EXCEPT !.steps = @ \o <<<<"write">>>>, !.files = @ \cup {object}]

\* Lines 215-220, is_backend_valid.
is_backend_valid(g) == g._repo # None

\* Lines 95-102, _add_files(self, file_path), called with the arguments
\* args.
_add_files(g, args) ==
    IF Len(args) # 1 THEN [g EXCEPT !.raised = "TypeError"]
    ELSE IF is_backend_valid(g) THEN [g EXCEPT !.steps = @ \o <<<<"add">>>>]
    ELSE g

\* Line 191: self._repo.commit(message=self._DEFAULT_GIT_MSG).
_repo_commit(g, message) ==
    IF g._repo = None THEN [g EXCEPT !.raised = "AttributeError"]
    ELSE [g EXCEPT !.steps = @ \o <<<<"commit", message>>>>]

\* Lines 177-191, put.
IBaseGitBackend_put(_repo_, repo_, files, object) ==
    LET start == GitOutcome(<<>>, _repo_, repo_, files, "none")
        created == IF _repo_ = None THEN _create_repo(start) ELSE start
        wrote == IBaseFileBackend_put(created, object)
        added == IF wrote.raised # "none" THEN wrote ELSE _add_files(wrote, <<>>)
    IN  IF added.raised # "none" THEN added ELSE _repo_commit(added, _DEFAULT_GIT_MSG)

\* Lines 193-203, get: a path and a url clone the repository into _repo.
IBaseGitBackend_get(_repo_, path, url) ==
    IF path # None /\ url # None THEN "Repo" ELSE _repo_

NoGitCall == [op |-> "none"]

\* backend.put(object)
git_put ==
    \E object \in GitObjects :
        LET g == IBaseGitBackend_put(_repo, repo, git_files, object)
        IN  /\ _repo' = g._repo
            /\ repo' = g.repo
            /\ git_files' = g.files
            /\ last_git' = [op |-> "put", object |-> object, had_repo |-> _repo # None,
                            steps |-> g.steps, raised |-> g.raised]
            /\ UNCHANGED <<busvars, gridvars, storevars, creatorvars, appvars, execvars>>

\* backend.get(path=..., url=...)
git_get ==
    \E path \in {None, "path"}, url \in {None, "url"} :
        /\ _repo' = IBaseGitBackend_get(_repo, path, url)
        /\ last_git' = [op |-> "get", cloned |-> path # None /\ url # None]
        /\ UNCHANGED <<repo, git_files>>
        /\ UNCHANGED <<busvars, gridvars, storevars, creatorvars, appvars, execvars>>

\* The steps of a put that wrote, staged and committed with the default
\* message.
WriteStageCommit == <<<<"write">>, <<"add">>, <<"commit", "Added file to git">>>>

\* C24: a put on the git backend that has written its files goes on to
\* stage them and to commit with the message 'Added file to git', in this
\* order, after creating the repository when there was none; no put returns
\* without an exception unless it has made that commit.
C24_PutWritesStagesCommits ==
    last_git.op = "put" =>
        /\ <<"write">> \in {last_git.steps[k] : k \in 1..Len(last_git.steps)} =>
               last_git.steps = (IF last_git.had_repo THEN <<>> ELSE <<<<"init">>>>)
                                    \o WriteStageCommit
        /\ last_git.raised = "none" =>
               last_git.steps = (IF last_git.had_repo THEN <<>> ELSE <<<<"init">>>>)
                                    \o WriteStageCommit

----------------------------------------------------------------------------
(* The execution of an Execution: src/pypadre/core/model/execution.py. *)

\* The Execution objects and the experiment each was constructed for
\* (lines 18-25: parent=experiment).
Executions == {"x1", "x2"}
parent == [execution \in Executions |-> IF execution = "x1" THEN "ex1" ELSE "ex2"]

\* The dataset of each experiment.
experiment_dataset == [experiment \in {"ex1", "ex2"} |->
                          IF experiment = "ex1" THEN "ds_int" ELSE "ds_cont"]

\* Lines 43-45, the property experiment.
Execution_experiment(execution) == parent[execution]

dataset_of_first(execution) == experiment_dataset["ex1"]

\* Lines 47-49, the property dataset.
Execution_dataset(execution) == experiment_dataset[Execution_experiment(execution)]

\* What execute did so far: its steps, the persisted executions and the
\* runs after them, what it returned and raised.
ExecOutcome(steps, stored_, runs_, returned, raised) ==
    [steps |-> steps, stored |-> stored_, runs |-> runs_, returned |-> returned,
     raised |-> raised]

\* IStoreable.send_put: the backends persist the entity, or raise.
send_put(o, execution, put_raises) ==
    IF put_raises THEN [o EXCEPT !.raised = "ValueError"]
    ELSE [o EXCEPT !.steps = @ \o <<"send_put">>, !.stored = @ \cup {execution}]

\* Line 32, Run(execution=self): a new Run whose execution is the one given.
Run(o, execution) ==
    [o EXCEPT !.steps = @ \o <<"Run">>, !.runs = @ \o <<execution>>]

\* Line 33, run.execute(data=..., execution=..., **kwargs) on the Run
\* created last: a keyword given twice is a TypeError; otherwise the result
\* of the run on the data, or the exception of the run.
Run_execute(o, data, execution, kwargs, run_raises) ==
    IF kwargs \cap {"data", "execution"} # {} THEN [o EXCEPT !.raised = "TypeError"]
    ELSE IF run_raises THEN [o EXCEPT !.steps = @ \o <<"execute">>,
                                      !.raised = "RuntimeError"]
    ELSE [o EXCEPT !.steps = @ \o <<"execute">>,
                   !.returned = [run |-> Len(o.runs), data |-> data,
                                 execution |-> execution]]

\* Lines 30-33, _execute_helper.
Execution_execute_helper(stored_, runs_, execution, kwargs, put_raises, run_raises) ==
    LET put == send_put(ExecOutcome(<<>>, stored_, runs_, None, "none"),
                        execution, put_raises)
    IN  IF put.raised # "none" THEN put
        ELSE Run_execute(Run(put, execution), Execution_dataset(execution),
                         execution, kwargs, run_raises)

NoExecute == [op |-> "none"]

\* execution.execute(**kwargs)
execute ==
    \E execution \in Executions, kwargs \in {{}, {"verbose"}, {"data"}},
       put_raises \in BOOLEAN, run_raises \in BOOLEAN :
        /\ Len(runs) < MaxRuns
        /\ LET o == Execution_execute_helper(stored, runs, execution, kwargs,
                                             put_raises, run_raises)
           IN  /\ stored' = o.stored
               /\ runs' = o.runs
               /\ last_exec' = [op |-> "execute", execution |-> execution,
                                runs_before |-> Len(runs), steps |-> o.steps,
                                returned |-> o.returned, raised |-> o.raised]
        /\ UNCHANGED <<busvars, gridvars, storevars, creatorvars, appvars, gitvars>>

\* C28: executing an Execution persists it before its Run is created; an
\* execute that returns has created exactly one Run, whose execution is that
\* Execution, has run it on the dataset of the parent experiment, and returns
\* the result of that Run.
C28_ExecutePersistsThenRuns ==
    last_exec.op = "execute" =>
        /\ \E k \in 0..3 : last_exec.steps = SubSeq(<<"send_put", "Run", "execute">>, 1, k)
        /\ "Run" \in {last_exec.steps[k] : k \in 1..Len(last_exec.steps)} =>
               last_exec.execution \in stored
        /\ Len(runs) <= last_exec.runs_before + 1
        /\ last_exec.raised = "none" =>
               /\ last_exec.steps = <<"send_put", "Run", "execute">>
               /\ Len(runs) = last_exec.runs_before + 1
               /\ runs[Len(runs)] = last_exec.execution
               /\ last_exec.returned =
                      [run |-> Len(runs),
                       data |-> experiment_dataset[parent[last_exec.execution]],
                       execution |-> last_exec.execution]

\* An execute of the execution of the second experiment returned.
C28_Witness ==
    /\ last_exec.op = "execute"
    /\ last_exec.execution = "x2"
    /\ last_exec.raised = "none"
    /\ last_exec.returned.data = "ds_cont"

----------------------------------------------------------------------------
(* The specifications. *)

BusInit(events, n) ==
    /\ _event_queue = <<>>
    /\ _emptying_queue = FALSE
    /\ stack = <<>>
    /\ appended = <<>>
    /\ taken = <<>>
    /\ invoked = <<>>
    /\ calls = <<>>
    /\ error = "none"
    /\ emit = events
    /\ budget = n

\* No grid expansion takes part in a behaviour of the event bus.
GridOff ==
    /\ hyperparameters = <<>>
    /\ component = None
    /\ registered = FALSE
    /\ form = "dict"
    /\ combinations = [status |-> "off"]
    /\ search = [status |-> "off"]

\* No file backend takes part in a behaviour of the event bus or of the
\* grid expander.
StoreOff ==
    /\ split_dirs = [d \in SplitIds \cup Uuids |-> Absent]
    /\ execution_dirs = [d \in ExecutionNames |-> Absent]
    /\ last = NoCall
    /\ written = {}
    /\ overwritten = {}

\* The class attributes of ExperimentCreator as the class body leaves them:
\* no experiment is registered and no create_experiment call was made.
CreatorInit ==
    /\ _experiments = [name \in {} |-> None]
    /\ _param_value_dict = [name \in {} |-> None]
    /\ last_create = NoCreate
    /\ first_created = [name \in {} |-> None]

\* No app takes part in a behaviour of the other parts.
AppOff ==
    /\ config_offline = FALSE
    /\ _offline = <<>>
    /\ local_datasets = None
    /\ remote_datasets = None
    /\ last_app = NoAppCall

\* No git backend takes part in a behaviour of the other parts.
GitOff ==
    /\ _repo = None
    /\ repo = None
    /\ git_files = {}
    /\ last_git = NoGitCall

\* No Execution is executed in a behaviour of the other parts.
ExecOff ==
    /\ stored = {}
    /\ runs = <<>>
    /\ last_exec = NoExecute

RestOff == AppOff /\ GitOff /\ ExecOff

Init ==
    BusInit(OrderingEvents, MaxEvents) /\ GridOff /\ StoreOff /\ CreatorInit /\ RestOff

InitLifecycle ==
    /\ BusInit(LifecycleEvents, MaxLifecycleEvents)
    /\ GridOff /\ StoreOff /\ CreatorInit /\ RestOff

\* The grid expander is given any mapping, for a registered or an
\* unregistered component; nothing is published on the event bus.
InitGrid ==
    /\ BusInit({}, 0)
    /\ hyperparameters \in ParamMappings
    /\ component \in ComponentIds
    /\ registered \in BOOLEAN
    /\ form \in (IF registered THEN Forms ELSE {"dict"})
    /\ combinations = Pending
    /\ search = Pending
    /\ StoreOff
    /\ CreatorInit
    /\ RestOff

\* The root directory holds any splits and executions of earlier processes;
\* no directory is named after an id uuid4 is yet to return.
InitStore ==
    /\ BusInit({}, 0)
    /\ GridOff
    /\ split_dirs \in {dirs \in [SplitIds \cup Uuids ->
                                    {Absent} \cup {Dir(serialise(m)) : m \in Metadata}] :
                          \A u \in Uuids : dirs[u] = Absent}
    /\ execution_dirs \in [ExecutionNames ->
                               {Absent} \cup {Dir(serialise(m)) : m \in Metadata}]
    /\ last = NoCall
    /\ written = {}
    /\ overwritten = {}
    /\ CreatorInit
    /\ RestOff

InitCreator == BusInit({}, 0) /\ GridOff /\ StoreOff /\ CreatorInit /\ RestOff

\* An app configured offline or online, over backends that hold the dataset
\* or not.
InitApp ==
    /\ BusInit({}, 0) /\ GridOff /\ StoreOff /\ CreatorInit /\ GitOff /\ ExecOff
    /\ config_offline \in BOOLEAN
    /\ _offline = <<>>
    /\ local_datasets \in {None, "local_copy"}
    /\ remote_datasets \in {None, "remote_copy"}
    /\ last_app = NoAppCall

Next ==
    \/ add_event_to_queue
    \/ process_events
    \/ invoke_handler
    \/ logger_call

Spec == Init /\ [][Next]_vars

SpecLifecycle == InitLifecycle /\ [][Next]_vars

NextGrid ==
    \/ call_create_combinations
    \/ call_GridSearch

SpecGrid == InitGrid /\ [][NextGrid]_vars

NextStore ==
    \/ split_put
    \/ split_get
    \/ split_get_by_dir
    \/ execution_put
    \/ execution_get
    \/ split_put_progress
    \/ metric_put_progress

SpecStore == InitStore /\ [][NextStore]_vars

NextCreator ==
    \/ create_experiment
    \/ set_param_values
    \/ do_experiments

SpecCreator == InitCreator /\ [][NextCreator]_vars

NextApp ==
    \/ set_offline
    \/ dataset_get
    \/ dataset_list
    \/ dataset_put
    \/ base_get
    \/ base_put

SpecApp == InitApp /\ [][NextApp]_vars

\* A git backend as constructed, over a root directory that holds the
\* files of any objects of earlier processes.
InitGit ==
    /\ BusInit({}, 0) /\ GridOff /\ StoreOff /\ CreatorInit /\ AppOff /\ ExecOff
    /\ _repo = None
    /\ repo = None
    /\ git_files \in SUBSET GitObjects
    /\ last_git = NoGitCall

NextGit ==
    \/ git_put
    \/ git_get

SpecGit == InitGit /\ [][NextGit]_vars

\* No execution is persisted and no Run exists.
InitExec ==
    /\ BusInit({}, 0) /\ GridOff /\ StoreOff /\ CreatorInit /\ AppOff /\ GitOff
    /\ ExecOff

NextExec == execute

SpecExec == InitExec /\ [][NextExec]_vars

====
